---- MODULE Spec2Model ----
(* Model of gan-dogs/model/evaluation.py: sample, compute_fid,             *)
(* plot_imgs_grid and generate_and_plot_images, together with the one      *)
(* directory the images are saved into.                                    *)
(*                                                                         *)
(* A pixel value v is held as the integer k with v = k / Scale.  Tensors   *)
(* produced by the network or by the helper library are held as records    *)
(* that name how they were produced, so that the data flow of a function   *)
(* can be read back from its result.                                       *)
EXTENDS Integers, Sequences, FiniteSets, TLC

VARIABLES
  pc,          \* "idle", "loop" (inside the for loop of plot_imgs_grid), "returned", "raised"
  fn,          \* the function called last
  calls,       \* number of calls made so far
  dirExists,   \* whether the directory named by the path exists
  files,       \* the j for which Dog_j.jpg is in the directory
  savedTotal,  \* number of images written successfully so far
  overwrote,   \* a write replaced a file that was already there
  loc,         \* locals of plot_imgs_grid
  obs,         \* what the running call of plot_imgs_grid has done so far
  sampleRun,   \* inputs, random draws and output of the last call of sample
  fidRun       \* inputs and output of the last call of compute_fid

vars == <<pc, fn, calls, dirExists, files, savedTotal, overwrote, loc, obs, sampleRun, fidRun>>

-----------------------------------------------------------------------------
(* Bounds *)

MaxImgs == 4
MaxCalls == 2
Scale == 2
NumClasses == 2
LatentDraws == 2

(* Program constants *)

FidBatch == 16
InceptionSide == 299
InceptionChannels == 3

None == "None"
OutDir == "out"

Paths == {None, OutDir}
ChannelCounts == {1, 3}
\* k / Scale runs from just below -1 to just above 1
PixelValues == (0 - Scale - 1) .. (Scale + 1)

-----------------------------------------------------------------------------
(* plot_imgs_grid: pure parts *)

\* int(round(np.sqrt(n))) for n >= 1: the g with g - 1/2 < sqrt(n) < g + 1/2
\* (sqrt(n) is never an exact half for an integer n)
GridSide(n) == CHOOSE g \in 1..n : g * g - g < n /\ n <= g * g + g

\* number of axes of plt.subplots(g, g) after np.reshape(axes, (-1,))
NumAxes(n) == GridSide(n) * GridSide(n)

PathGivenAlways(p) == TRUE

\* `if path:`
PathGiven(p) == p # None

\* sum([len(files) for r, d, files in os.walk(path)]); a missing directory is
\* walked without error and yields nothing
FileCounter(exists, fs) == IF exists THEN Cardinality(fs) ELSE 0

NormalizeNoShift(k) == k

\* (img + 1.) / 2. as a numerator over 2 * Scale
Normalize(k) == k + Scale

\* truncation toward zero of num / den, den > 0
Trunc(num, den) == IF num >= 0 THEN num \div den ELSE 0 - ((0 - num) \div den)

\* 255 * img for img = d / (2 * Scale), before the cast
Times255(d) == Trunc(255 * d, 2 * Scale)

\* astype('uint8') of a float: truncation when the result fits; a value that
\* does not fit is converted in a platform dependent way (wrapped or saturated)
AsUint8(t) ==
  IF t >= 0 /\ t <= 255 THEN {t}
  ELSE {t % 256, IF t < 0 THEN 0 ELSE 255}

\* cv2.imwrite returns True or False; it cannot succeed into a missing directory
ImwriteResults(exists) == IF exists THEN {TRUE, FALSE} ELSE {FALSE}

NoLocals == [n_imgs |-> 0, channels |-> 0, path |-> None, axes |-> 0,
             file_counter |-> -1, i |-> 0]

NoObs == [shown |-> <<>>, printed |-> <<>>, written |-> {}, failed |-> {}, walked |-> FALSE,
          counterRead |-> FALSE, outOfRange |-> FALSE, pixel |-> 0,
          displayed |-> 0, saved |-> -1, filesBefore |-> {}, generated |-> 0]

NoSample == [ran |-> FALSE]
NoFid == [ran |-> FALSE]

-----------------------------------------------------------------------------
(* sample and compute_fid: values produced by the network and the library *)

Shapes == {<<64, 64, 3>>, <<28, 28, 1>>, <<299, 299, 3>>}
Labels == 0 .. (NumClasses - 1)

\* a tf.data.Dataset of two elements (imgs, labels) with two images each;
\* the image at position j of batch b is the real image (b, j)
RealImage(b, j) == [src |-> "real", a |-> b, b |-> j]
Datasets ==
  {[b \in 1..2 |->
      [imgs |-> [j \in 1..2 |-> RealImage(b, j)], labels |-> ls[b]]] :
     ls \in [1..2 -> [1..2 -> Labels]]}

\* gan(inputs, training=...) for inputs = (latent vectors, labels): one
\* generated image per row
Gan(latent, labels) ==
  [j \in 1..Len(latent) |-> [src |-> "generated", a |-> latent[j], b |-> labels[j]]]

\* gan.discriminator(imgs, labels, training=...)
Discriminator(imgs, labels, training) ==
  [imgs |-> imgs, labels |-> labels, training |-> training]

\* tf.nn.sigmoid(x)
Sigmoid(x) == [sigmoid |-> x]

\* x[:1, ...]
Take1(x) == SubSeq(x, 1, 1)

SamplePrintsSwapped(pred_real, pred_gen) ==
  << [msg |-> "Probability of real image being real:", value |-> Sigmoid(pred_gen)],
     [msg |-> "Probability of generated image being real:", value |-> Sigmoid(pred_real)] >>

\* the two print calls of sample
SamplePrints(pred_real, pred_gen) ==
  << [msg |-> "Probability of real image being real:", value |-> Sigmoid(pred_real)],
     [msg |-> "Probability of generated image being real:", value |-> Sigmoid(pred_gen)] >>

\* scale_images(images, new_shape)
ScaleImages(images, new_shape) ==
  [images EXCEPT !.shape = new_shape, !.scaled = TRUE]

\* calculate_fid(images1, images2)
CalculateFid(images1, images2) == [images1 |-> images1, images2 |-> images2]

FidOfUnscaledSwapped(real_images, generated_images) ==
  CalculateFid(ScaleImages(generated_images, <<InceptionSide, InceptionSide, InceptionChannels>>),
               real_images)

\* lines 86-91 of compute_fid: scale both sets, calculate, return
FidOf(real_images, generated_images) ==
  LET images1 == ScaleImages(real_images, <<InceptionSide, InceptionSide, InceptionChannels>>)
      images2 == ScaleImages(generated_images, <<InceptionSide, InceptionSide, InceptionChannels>>)
  IN  CalculateFid(images1, images2)

-----------------------------------------------------------------------------

Init ==
  /\ pc = "idle"
  /\ fn = "none"
  /\ calls = 0
  /\ dirExists \in BOOLEAN
  /\ files = {}
  /\ savedTotal = 0
  /\ overwrote = FALSE
  /\ loc = NoLocals
  /\ obs = NoObs
  /\ sampleRun = NoSample
  /\ fidRun = NoFid

CanCall == pc # "loop" /\ calls < MaxCalls

\* lines 101-113 of plot_imgs_grid, up to the start of the for loop
EnterGrid(name, n, ch, p, generated) ==
  /\ pc' = "loop"
  /\ fn' = name
  /\ calls' = calls + 1
  /\ loc' = [n_imgs |-> n, channels |-> ch, path |-> p, axes |-> NumAxes(n),
             file_counter |-> IF PathGiven(p) THEN FileCounter(dirExists, files) ELSE -1,
             i |-> 0]
  /\ obs' = [NoObs EXCEPT !.walked = PathGiven(p), !.filesBefore = files,
                          !.generated = generated]
  /\ sampleRun' = NoSample
  /\ fidRun' = NoFid
  /\ UNCHANGED <<dirExists, files, savedTotal, overwrote>>

\* plot_imgs_grid(imgs, path) called directly
PlotImgsGrid ==
  /\ CanCall
  /\ \E n \in 1..MaxImgs, ch \in ChannelCounts, p \in Paths :
       EnterGrid("plot_imgs_grid", n, ch, p, 0)

\* generate_and_plot_images(gan, num_images, save_path)
GenerateAndPlotImages ==
  /\ CanCall
  /\ \E num_images \in 1..MaxImgs, ch \in ChannelCounts, save_path \in Paths :
       EnterGrid("generate_and_plot_images", num_images, ch, save_path, num_images)

\* the display part of one iteration: imshow of (img + 1.) / 2.
Show(k) ==
  [obs EXCEPT !.shown = Append(@, loc.i), !.pixel = k, !.displayed = Normalize(k)]

\* img = imgs[i, ...] with i past the end of imgs
LoopIndexError ==
  /\ pc = "loop"
  /\ loc.i < loc.axes
  /\ loc.i >= loc.n_imgs
  /\ pc' = "raised"
  /\ obs' = [obs EXCEPT !.outOfRange = TRUE]
  /\ UNCHANGED <<fn, calls, dirExists, files, savedTotal, overwrote, loc, sampleRun, fidRun>>

\* one iteration without a path: the image is shown only
LoopShowOnly ==
  /\ pc = "loop"
  /\ loc.i < loc.axes
  /\ loc.i < loc.n_imgs
  /\ ~PathGiven(loc.path)
  /\ \E k \in PixelValues : obs' = Show(k)
  /\ loc' = [loc EXCEPT !.i = @ + 1]
  /\ UNCHANGED <<pc, fn, calls, dirExists, files, savedTotal, overwrote, sampleRun, fidRun>>

\* one iteration with a path and a single channel: np.squeeze has made img a
\* numpy array, and img.numpy() raises AttributeError
LoopAttributeError ==
  /\ pc = "loop"
  /\ loc.i < loc.axes
  /\ loc.i < loc.n_imgs
  /\ PathGiven(loc.path)
  /\ loc.channels = 1
  /\ \E k \in PixelValues : obs' = [Show(k) EXCEPT !.counterRead = TRUE]
  /\ pc' = "raised"
  /\ UNCHANGED <<fn, calls, dirExists, files, savedTotal, overwrote, loc, sampleRun, fidRun>>

\* one iteration with a path and several channels: shown, written, announced
LoopSave ==
  /\ pc = "loop"
  /\ loc.i < loc.axes
  /\ loc.i < loc.n_imgs
  /\ PathGiven(loc.path)
  /\ loc.channels # 1
  /\ \E k \in PixelValues, ok \in ImwriteResults(dirExists) :
       \E u \in AsUint8(Times255(Normalize(k))) :
         LET name == loc.file_counter + loc.i IN
           /\ obs' = [Show(k) EXCEPT !.counterRead = TRUE, !.saved = u,
                                     !.printed = Append(@, name),
                                     !.written = IF ok THEN @ \cup {name} ELSE @,
                                     !.failed = IF ok THEN @ ELSE @ \cup {name}]
           /\ files' = IF ok THEN files \cup {name} ELSE files
           /\ savedTotal' = IF ok THEN savedTotal + 1 ELSE savedTotal
           /\ overwrote' = (overwrote \/ (ok /\ name \in files))
  /\ loc' = [loc EXCEPT !.i = @ + 1]
  /\ UNCHANGED <<pc, fn, calls, dirExists, sampleRun, fidRun>>

\* the loop is over: plt.show() and return
PlotShow ==
  /\ pc = "loop"
  /\ loc.i = loc.axes
  /\ pc' = "returned"
  /\ UNCHANGED <<fn, calls, dirExists, files, savedTotal, overwrote, loc, obs, sampleRun, fidRun>>

\* sample(gan, train_dataset)
Sample ==
  /\ CanCall
  /\ \E z \in 1..LatentDraws, lab \in Labels, ds \in Datasets :
       LET random_latent_vectors == <<z>>
           random_labels == <<lab>>
           gen_imgs == Gan(random_latent_vectors, random_labels)
           batch == ds[1]
           real_img == Take1(batch.imgs)
           real_label == Take1(batch.labels)
           pred_real == Discriminator(real_img, real_label, FALSE)
           pred_gen == Discriminator(gen_imgs, random_labels, FALSE)
       IN  sampleRun' = [ran |-> TRUE,
                         train_dataset |-> ds,
                         random_latent_vectors |-> random_latent_vectors,
                         random_labels |-> random_labels,
                         modelCalls |-> {[model |-> "generator", training |-> FALSE],
                                         [model |-> "discriminator", training |-> FALSE]},
                         printed |-> SamplePrints(pred_real, pred_gen),
                         plotted |-> gen_imgs[1]]
  /\ pc' = "returned"
  /\ fn' = "sample"
  /\ calls' = calls + 1
  /\ loc' = NoLocals
  /\ obs' = NoObs
  /\ fidRun' = NoFid
  /\ UNCHANGED <<dirExists, files, savedTotal, overwrote>>

\* compute_fid(gan, real_images)
ComputeFid ==
  /\ CanCall
  /\ \E n \in 1..MaxImgs, rs \in Shapes, gs \in Shapes :
       LET real_images == [src |-> "real", n |-> n, shape |-> rs,
                           mode |-> "data", scaled |-> FALSE]
           generated_images == [src |-> "generated", n |-> FidBatch, shape |-> gs,
                                mode |-> "inference", scaled |-> FALSE]
       IN  fidRun' = [ran |-> TRUE,
                      real_images |-> real_images,
                      generated_images |-> generated_images,
                      fid |-> FidOf(real_images, generated_images)]
  /\ pc' = "returned"
  /\ fn' = "compute_fid"
  /\ calls' = calls + 1
  /\ loc' = NoLocals
  /\ obs' = NoObs
  /\ sampleRun' = NoSample
  /\ UNCHANGED <<dirExists, files, savedTotal, overwrote>>

\* calls of sample and compute_fid, which touch neither the directory nor plots
NextEval ==
  \/ Sample
  \/ ComputeFid

SpecEval == Init /\ [][NextEval]_vars

\* calls of plot_imgs_grid and generate_and_plot_images
Next ==
  \/ PlotImgsGrid
  \/ GenerateAndPlotImages
  \/ LoopIndexError
  \/ LoopShowOnly
  \/ LoopAttributeError
  \/ LoopSave
  \/ PlotShow

Spec == Init /\ [][Next]_vars

-----------------------------------------------------------------------------
(* Properties *)

InGrid == fn \in {"plot_imgs_grid", "generate_and_plot_images"}

\* the indices 0 .. n-1 in order
UpTo(n) == [j \in 1..n |-> j - 1]

ShownSet == {obs.shown[j] : j \in 1..Len(obs.shown)}

Target == <<InceptionSide, InceptionSide, InceptionChannels>>

\* C1: generate_and_plot_images(gan, num_images, save_path) generates
\* num_images images and the grid has one cell per image; no index outside
\* 0..num_images-1 is read from imgs; when the call returns every index
\* 0..num_images-1 has been shown exactly once.
C1_EveryImagePlotted ==
  fn = "generate_and_plot_images" =>
    /\ obs.generated = loc.n_imgs
    /\ loc.axes = loc.n_imgs
    /\ ~obs.outOfRange
    /\ (pc = "returned" => obs.shown = UpTo(loc.n_imgs))

\* C2: with a path naming an existing directory, writes that succeed and a
\* grid that matches the images, plot_imgs_grid does not raise and every
\* image it has shown has been saved, whatever the number of channels.
C2_ShownImagesSavedNoRaise ==
  (InGrid /\ PathGiven(loc.path) /\ dirExists /\ obs.failed = {}
          /\ loc.axes = loc.n_imgs) =>
    /\ pc # "raised"
    /\ (pc = "returned" =>
          \A j \in ShownSet : (loc.file_counter + j) \in obs.written)

\* C3: without a path the directory is not walked, file_counter is not
\* bound nor read, no file is written and nothing is announced.
C3_NoPathNoFilesystemEffect ==
  (InGrid /\ loc.path = None) =>
    /\ ~obs.walked
    /\ ~obs.counterRead
    /\ loc.file_counter = -1
    /\ files = obs.filesBefore
    /\ obs.written = {}
    /\ obs.printed = <<>>

C3_Witness ==
  /\ fn = "generate_and_plot_images"
  /\ loc.path = None
  /\ pc = "returned"
  /\ Len(obs.shown) >= 1
  /\ files # {}

\* C4: compute_fid returns calculate_fid(real images scaled to (299, 299, 3),
\* images generated in inference mode scaled to (299, 299, 3)), in this order.
C4_FidOfScaledRealThenGenerated ==
  fidRun.ran =>
    /\ fidRun.fid.images1.src = "real"
    /\ fidRun.fid.images1.n = fidRun.real_images.n
    /\ fidRun.fid.images1.scaled
    /\ fidRun.fid.images1.shape = Target
    /\ fidRun.fid.images2.src = "generated"
    /\ fidRun.fid.images2.mode = "inference"
    /\ fidRun.fid.images2.n = fidRun.generated_images.n
    /\ fidRun.fid.images2.scaled
    /\ fidRun.fid.images2.shape = Target

C4_Witness ==
  /\ fidRun.ran
  /\ fidRun.real_images.shape # Target
  /\ fidRun.generated_images.shape # Target
  /\ fidRun.real_images.n # fidRun.generated_images.n

PixelInRange(k) == k >= 0 - Scale /\ k <= Scale

\* C5: for a pixel value v in [-1, 1] the displayed value (v + 1) / 2 is in
\* [0, 1]; the saved byte is the integer part of 255 * (v + 1) / 2, lies in
\* 0..255, and is 0 for v = -1 and 255 for v = 1.
C5_NormalizedInRange ==
  (InGrid /\ Len(obs.shown) > 0 /\ PixelInRange(obs.pixel)) =>
       /\ obs.displayed = obs.pixel + Scale
       /\ obs.displayed >= 0 /\ obs.displayed <= 2 * Scale
       /\ (obs.saved # -1 =>
             /\ obs.saved \in 0..255
             /\ obs.saved * 2 * Scale <= 255 * (obs.pixel + Scale)
             /\ 255 * (obs.pixel + Scale) < (obs.saved + 1) * 2 * Scale
             /\ (obs.pixel = 0 - Scale => obs.saved = 0)
             /\ (obs.pixel = Scale => obs.saved = 255))

C5_Witness ==
  /\ InGrid
  /\ pc = "returned"
  /\ obs.pixel = Scale
  /\ obs.saved = 255
  /\ obs.displayed = 2 * Scale

\* C6: the value printed for the generated image is the sigmoid of the
\* discriminator on the generated image with the label fed to the generator;
\* the value printed for the real image is the sigmoid of the discriminator
\* on the first image of the first batch with that image's label; every
\* network call has training = False.
C6_SamplePrintsMatchInputs ==
  sampleRun.ran =>
    LET first == sampleRun.train_dataset[1]
        gen == [src |-> "generated", a |-> sampleRun.random_latent_vectors[1],
                b |-> sampleRun.random_labels[1]]
        outGen == {m \in {sampleRun.printed[j] : j \in 1..Len(sampleRun.printed)} :
                     m.msg = "Probability of generated image being real:"}
        outReal == {m \in {sampleRun.printed[j] : j \in 1..Len(sampleRun.printed)} :
                     m.msg = "Probability of real image being real:"}
    IN  /\ Cardinality(outGen) = 1
        /\ Cardinality(outReal) = 1
        /\ \A m \in outGen :
             /\ m.value.sigmoid.imgs = <<gen>>
             /\ m.value.sigmoid.labels = sampleRun.random_labels
             /\ ~m.value.sigmoid.training
        /\ \A m \in outReal :
             /\ m.value.sigmoid.imgs = <<first.imgs[1]>>
             /\ m.value.sigmoid.labels = <<first.labels[1]>>
             /\ ~m.value.sigmoid.training
        /\ \A c \in sampleRun.modelCalls : ~c.training

C6_Witness ==
  /\ sampleRun.ran
  /\ sampleRun.random_labels[1] # sampleRun.train_dataset[1].labels[1]
  /\ sampleRun.train_dataset[1].labels[2] # sampleRun.train_dataset[1].labels[1]
  /\ sampleRun.train_dataset[2].labels[1] # sampleRun.train_dataset[1].labels[1]

\* C7: a name is announced ('Image saved as: <name>') only if the file of
\* that name was written by this call.
C7_AnnouncedOnlyIfWritten ==
  InGrid => \A j \in 1..Len(obs.printed) : obs.printed[j] \in obs.written

\* C8: starting from an empty existing directory, the directory holds
\* exactly Dog_0 .. Dog_(N-1) for N the number of images saved so far, each
\* call numbers from the file count seen at its start, and no write replaces
\* a file of an earlier call.
C8_ContiguousNamesNoOverwrite ==
  dirExists =>
    /\ files = {j \in 0..(savedTotal + MaxImgs * MaxCalls) : j < savedTotal}
    /\ ~overwrote
    /\ ((InGrid /\ PathGiven(loc.path)) =>
          loc.file_counter = Cardinality(obs.filesBefore))
====
